---------------------------- MODULE Spec2Model ----------------------------
(***************************************************************************)
(* Loss-scale managers of mindspore/train/loss_scale_manager.py:           *)
(* FixedLossScaleManager and DynamicLossScaleManager.                      *)
(*                                                                         *)
(* Numbers.  loss_scale, scale_factor, increase_ratio and decrease_ratio   *)
(* are Python floats.  They are modelled as exact rationals <<n, d>> in    *)
(* lowest terms with d > 0.  Every value the model draws is a dyadic       *)
(* rational of small magnitude, for which IEEE double multiplication,      *)
(* division, max and comparison are exact, so the rational result is the   *)
(* float result.                                                           *)
(***************************************************************************)
EXTENDS Integers, Sequences, FiniteSets, TLC

VARIABLES env, args, self, last, hist

vars == <<env, args, self, last, hist>>

(***************************************************************************)
(* Bounds of the exploration.                                              *)
(***************************************************************************)
\* update_loss_scale calls explored with arbitrary overflow flags.
MaxCalls == 6
\* In the persistent-overflow scenario: calls with arbitrary flags before
\* the overflow streak starts.
MaxWarm == 3
\* In the persistent-overflow scenario: calls explored beyond bad_step_max.
MaxTail == 5

(***************************************************************************)
(* Exact rational arithmetic.                                              *)
(***************************************************************************)
Abs(x) == IF x < 0 THEN -x ELSE x

RECURSIVE GCD(_, _)
GCD(a, b) == IF b = 0 THEN a ELSE GCD(b, a % b)

\* The rational n/d (d # 0) in lowest terms with a positive denominator.
Rat(n, d) ==
    LET g == GCD(Abs(n), Abs(d))
        s == IF d < 0 THEN -1 ELSE 1
    IN  <<(s * n) \div g, (s * d) \div g>>

Zero == <<0, 1>>
One == <<1, 1>>

RMul(a, b) == Rat(a[1] * b[1], a[2] * b[2])
RInv(a) == Rat(a[2], a[1])
RLess(a, b) == a[1] * b[2] < b[1] * a[2]
RLeq(a, b) == a[1] * b[2] <= b[1] * a[2]
RMax(a, b) == IF RLess(a, b) THEN b ELSE a

RECURSIVE RPow(_, _)
RPow(a, k) == IF k = 0 THEN One ELSE RMul(a, RPow(a, k - 1))

(***************************************************************************)
(* Values.                                                                 *)
(***************************************************************************)
FixedCls == "FixedLossScaleManager"
DynamicCls == "DynamicLossScaleManager"

\* No object: the constructor raised.
NoObject == [cls |-> "NoObject"]

None == [t |-> "None"]
Float(q) == [t |-> "float", v |-> q]
Bool(b) == [t |-> "bool", v |-> b]

\* Outcome of a call: the object afterwards and the exception, if any.
Returned(obj) == [obj |-> obj, raised |-> "none"]
Raised(obj, exc) == [obj |-> obj, raised |-> exc]

\* nn.FixedLossScaleUpdateCell(loss_scale): an opaque cell carrying its argument.
FixedLossScaleUpdateCell(loss_scale) ==
    [t |-> "FixedLossScaleUpdateCell", loss_scale |-> loss_scale]

\* nn.DynamicLossScaleUpdateCell(loss_scale, scale_factor, scale_window).
DynamicLossScaleUpdateCell(loss_scale, scale_factor, scale_window) ==
    [t |-> "DynamicLossScaleUpdateCell", loss_scale |-> loss_scale,
     scale_factor |-> scale_factor, scale_window |-> scale_window]

\* validator.check_positive_int(arg_value, ...): TRUE when it does not raise.
check_positive_int(arg_value) == arg_value > 0

(***************************************************************************)
(* FixedLossScaleManager.                                                  *)
(***************************************************************************)
Fixed_init(loss_scale, drop_overflow_update) ==
    IF RLess(loss_scale, One)
    THEN Raised(NoObject, "ValueError")
    ELSE Returned([cls |-> FixedCls,
                   _loss_scale |-> loss_scale,
                   _drop_overflow_update |-> drop_overflow_update])

Fixed_get_loss_scale(s) == Float(s._loss_scale)

Fixed_get_drop_overflow_update(s) == Bool(s._drop_overflow_update)

Fixed_update_loss_scale_Adapts(s, overflow) ==
    IF overflow
    THEN [s EXCEPT !._loss_scale = RMax(RMul(@, <<1, 2>>), One)]
    ELSE s

\* The body is a docstring only: the object is left as it is.
Fixed_update_loss_scale(s, overflow) == s

Fixed_get_update_cell_Inverted(s) ==
    IF s._drop_overflow_update
    THEN None
    ELSE FixedLossScaleUpdateCell(s._loss_scale)

Fixed_get_update_cell(s) ==
    IF ~s._drop_overflow_update
    THEN None
    ELSE FixedLossScaleUpdateCell(s._loss_scale)

(***************************************************************************)
(* DynamicLossScaleManager.                                                *)
(***************************************************************************)
BadStepMax == 1000

NewDynamic(init_loss_scale, scale_factor, scale_window) ==
    [cls |-> DynamicCls,
     loss_scale |-> init_loss_scale,
     scale_window |-> scale_window,
     scale_factor |-> scale_factor,
     increase_ratio |-> scale_factor,
     decrease_ratio |-> RInv(scale_factor),
     cur_iter |-> 1,
     last_overflow_iter |-> 0,
     bad_step_max |-> BadStepMax,
     bad_step |-> 0]

Dynamic_init_RejectsOne(init_loss_scale, scale_factor, scale_window) ==
    IF RLeq(init_loss_scale, One)
    THEN Raised(NoObject, "ValueError")
    ELSE IF ~check_positive_int(scale_window)
    THEN Raised(NoObject, "ValueError")
    ELSE IF RLeq(scale_factor, Zero)
    THEN Raised(NoObject, "ValueError")
    ELSE Returned(NewDynamic(init_loss_scale, scale_factor, scale_window))

Dynamic_init(init_loss_scale, scale_factor, scale_window) ==
    IF RLess(init_loss_scale, One)
    THEN Raised(NoObject, "ValueError")
    ELSE IF ~check_positive_int(scale_window)
    THEN Raised(NoObject, "ValueError")
    ELSE IF RLeq(scale_factor, Zero)
    THEN Raised(NoObject, "ValueError")
    ELSE Returned(NewDynamic(init_loss_scale, scale_factor, scale_window))

Dynamic_get_loss_scale(s) == Float(s.loss_scale)

Dynamic_get_drop_overflow_update(s) == Bool(TRUE)

Dynamic_get_update_cell(s) ==
    DynamicLossScaleUpdateCell(s.loss_scale, s.scale_factor, s.scale_window)

\* The overflow branch of update_loss_scale.
Backoff_NoFloor(s) ==
    [s EXCEPT !.loss_scale = RMul(s.loss_scale, s.decrease_ratio),
              !.last_overflow_iter = s.cur_iter,
              !.bad_step = s.bad_step + 1]

Backoff(s) ==
    [s EXCEPT !.loss_scale = RMax(RMul(s.loss_scale, s.decrease_ratio), One),
              !.last_overflow_iter = s.cur_iter,
              !.bad_step = s.bad_step + 1]

\* The growth test of the non-overflow branch.
WindowElapsed_AtLeast(s) ==
    (s.cur_iter - s.last_overflow_iter) >= s.scale_window

WindowElapsed(s) ==
    (s.cur_iter - s.last_overflow_iter) % s.scale_window = 0

\* The non-overflow branch of update_loss_scale.
Grow_KeepsBadStep(s) ==
    IF WindowElapsed(s)
    THEN [s EXCEPT !.loss_scale = RMul(s.loss_scale, s.increase_ratio)]
    ELSE s

Grow(s) ==
    IF WindowElapsed(s)
    THEN [s EXCEPT !.loss_scale = RMul(s.loss_scale, s.increase_ratio),
                   !.bad_step = 0]
    ELSE [s EXCEPT !.bad_step = 0]

\* The test guarding the RuntimeError.
ExceedsThreshold_Early(s) == s.bad_step >= s.bad_step_max

ExceedsThreshold(s) == s.bad_step > s.bad_step_max

Dynamic_update_loss_scale(s, overflow) ==
    LET s1 == IF overflow THEN Backoff(s) ELSE Grow(s)
    IN  IF ExceedsThreshold(s1)
        THEN Raised(s1, "RuntimeError")
        ELSE Returned([s1 EXCEPT !.cur_iter = s1.cur_iter + 1])

(***************************************************************************)
(* Constructor arguments explored.                                         *)
(***************************************************************************)
LossScales ==
    {<<0, 1>>, <<1, 2>>, <<1, 1>>, <<2, 1>>, <<3, 1>>, <<128, 1>>, <<1024, 1>>}
ScaleFactors == {<<-1, 1>>, <<0, 1>>, <<1, 2>>, <<1, 1>>, <<2, 1>>, <<4, 1>>}
ScaleWindows == {-1, 0, 1, 2, 3}

FixedArgs ==
    [cls : {FixedCls}, loss_scale : LossScales, drop_overflow_update : BOOLEAN]
DynamicArgs ==
    [cls : {DynamicCls}, init_loss_scale : LossScales,
     scale_factor : ScaleFactors, scale_window : ScaleWindows]

\* Configurations of the persistent-overflow scenario.
StreakArgs ==
    [cls : {DynamicCls}, init_loss_scale : {<<1, 1>>, <<2, 1>>, <<1024, 1>>},
     scale_factor : {<<1, 1>>, <<2, 1>>}, scale_window : {1, 2, 3}]

Construct(a) ==
    IF a.cls = FixedCls
    THEN Fixed_init(a.loss_scale, a.drop_overflow_update)
    ELSE Dynamic_init(a.init_loss_scale, a.scale_factor, a.scale_window)

(***************************************************************************)
(* State.                                                                  *)
(*   env   the caller explored: "mixed" (arbitrary overflow flags for      *)
(*         MaxCalls calls) or "streak" (overflow persists past             *)
(*         bad_step_max)                                                   *)
(*   args  the constructor's arguments                                     *)
(*   self  the manager object, NoObject when the constructor raised        *)
(*   last  the last operation: its name, overflow argument, exception      *)
(*         and return value                                                *)
(*   hist  what the caller has done so far, counted from its own calls:    *)
(*         calls, calls that returned, the trailing run of overflow=True   *)
(*         and of overflow=False calls, whether any call overflowed, and   *)
(*         RuntimeErrors seen                                              *)
(***************************************************************************)
Hist0 ==
    [calls |-> 0, returned |-> 0, trueRun |-> 0, falseRun |-> 0,
     anyOverflow |-> FALSE, raises |-> 0]

InitWith(e, a) ==
    LET r == Construct(a)
    IN  /\ env = e
        /\ args = a
        /\ self = r.obj
        /\ last = [op |-> "__init__", overflow |-> FALSE,
                   raised |-> r.raised, ret |-> None]
        /\ hist = Hist0

Init ==
    \/ \E a \in FixedArgs \cup DynamicArgs : InitWith("mixed", a)
    \/ \E a \in StreakArgs : InitWith("streak", a)

Record(h, overflow, raised) ==
    [calls |-> h.calls + 1,
     returned |-> IF raised = "none" THEN h.returned + 1 ELSE h.returned,
     trueRun |-> IF overflow THEN h.trueRun + 1 ELSE 0,
     falseRun |-> IF overflow THEN 0 ELSE h.falseRun + 1,
     anyOverflow |-> h.anyOverflow \/ overflow,
     raises |-> IF raised = "none" THEN h.raises ELSE h.raises + 1]

\* The calls the exploration makes.
CallAllowed(overflow) ==
    IF env = "mixed"
    THEN hist.calls < MaxCalls
    ELSE /\ hist.calls < self.bad_step_max + MaxTail
         /\ \/ overflow
            \/ hist.calls < MaxWarm
            \/ self.bad_step >= self.bad_step_max

GetterAllowed == hist.calls <= MaxCalls

(***************************************************************************)
(* Operations.                                                             *)
(***************************************************************************)
FixedUpdateLossScale(overflow) ==
    /\ self.cls = FixedCls
    /\ CallAllowed(overflow)
    /\ self' = Fixed_update_loss_scale(self, overflow)
    /\ last' = [op |-> "update_loss_scale", overflow |-> overflow,
                raised |-> "none", ret |-> None]
    /\ hist' = Record(hist, overflow, "none")
    /\ UNCHANGED <<env, args>>

DynamicUpdateLossScale(overflow) ==
    /\ self.cls = DynamicCls
    /\ CallAllowed(overflow)
    /\ LET r == Dynamic_update_loss_scale(self, overflow)
       IN  /\ self' = r.obj
           /\ last' = [op |-> "update_loss_scale", overflow |-> overflow,
                       raised |-> r.raised, ret |-> None]
           /\ hist' = Record(hist, overflow, r.raised)
    /\ UNCHANGED <<env, args>>

Getter(name, value) ==
    /\ GetterAllowed
    /\ last' = [op |-> name, overflow |-> FALSE, raised |-> "none", ret |-> value]
    /\ UNCHANGED <<env, args, self, hist>>

FixedGetLossScale ==
    /\ self.cls = FixedCls
    /\ Getter("get_loss_scale", Fixed_get_loss_scale(self))

FixedGetDropOverflowUpdate ==
    /\ self.cls = FixedCls
    /\ Getter("get_drop_overflow_update", Fixed_get_drop_overflow_update(self))

FixedGetUpdateCell ==
    /\ self.cls = FixedCls
    /\ Getter("get_update_cell", Fixed_get_update_cell(self))

DynamicGetLossScale ==
    /\ self.cls = DynamicCls
    /\ Getter("get_loss_scale", Dynamic_get_loss_scale(self))

DynamicGetDropOverflowUpdate ==
    /\ self.cls = DynamicCls
    /\ Getter("get_drop_overflow_update", Dynamic_get_drop_overflow_update(self))

DynamicGetUpdateCell ==
    /\ self.cls = DynamicCls
    /\ Getter("get_update_cell", Dynamic_get_update_cell(self))

Next ==
    \/ \E overflow \in BOOLEAN : FixedUpdateLossScale(overflow)
    \/ \E overflow \in BOOLEAN : DynamicUpdateLossScale(overflow)
    \/ FixedGetLossScale
    \/ FixedGetDropOverflowUpdate
    \/ FixedGetUpdateCell
    \/ DynamicGetLossScale
    \/ DynamicGetDropOverflowUpdate
    \/ DynamicGetUpdateCell

Spec == Init /\ [][Next]_vars

(***************************************************************************)
(* Properties.                                                             *)
(***************************************************************************)
IsFixed == self.cls = FixedCls
IsDynamic == self.cls = DynamicCls

\* a / b on rationals (b # 0), computed as a quotient, not through 1/b.
RDiv(a, b) == Rat(a[1] * b[2], a[2] * b[1])

\* C1: on every dynamic manager the constructor accepted, get_loss_scale()
\* is at least 1 at construction and after every update_loss_scale call.
C1_ScaleAtLeastOne == IsDynamic => RLeq(One, self.loss_scale)

\* C2: in a run of consecutive update_loss_scale(True) calls that starts with
\* bad_step = 0, none of the first bad_step_max calls raises RuntimeError and
\* call number bad_step_max + 1 raises it; a call with overflow = False
\* (trailing run 0) never raises.
C2_RaisesExactlyPastCeiling ==
    (IsDynamic /\ last.op = "update_loss_scale") =>
        /\ (hist.trueRun <= self.bad_step_max => last.raised = "none")
        /\ (hist.trueRun = self.bad_step_max + 1 => last.raised = "RuntimeError")

\* C2 witness: the streak began after an earlier call and its call number
\* bad_step_max + 1 has just raised.
C2_Witness ==
    /\ IsDynamic
    /\ last.op = "update_loss_scale"
    /\ last.raised = "RuntimeError"
    /\ hist.trueRun = BadStepMax + 1
    /\ hist.calls > hist.trueRun

\* C3: while no call has reported overflow, after n calls on a fresh dynamic
\* manager loss_scale = init_loss_scale * scale_factor^(n div scale_window):
\* the k-th call multiplies by scale_factor exactly when scale_window divides k.
C3_GrowthCadence ==
    (IsDynamic /\ ~hist.anyOverflow) =>
        self.loss_scale =
            RMul(args.init_loss_scale,
                 RPow(args.scale_factor, hist.calls \div args.scale_window))

\* C3 witness: init 1024, factor 2, window 3, three non-overflow calls: 2048.
C3_Witness ==
    /\ IsDynamic
    /\ ~hist.anyOverflow
    /\ hist.calls = 3
    /\ args.init_loss_scale = <<1024, 1>>
    /\ args.scale_factor = <<2, 1>>
    /\ args.scale_window = 3
    /\ self.loss_scale = <<2048, 1>>

\* C4: every update_loss_scale(True) call, the raising one included, leaves
\* loss_scale = max(loss_scale / scale_factor, 1), hence at least 1, and
\* last_overflow_iter = the cur_iter the call began with.
C4_Backoff ==
    [][(IsDynamic /\ hist'.calls = hist.calls + 1 /\ last'.overflow) =>
          /\ self'.loss_scale = RMax(RDiv(self.loss_scale, self.scale_factor), One)
          /\ RLeq(One, self'.loss_scale)
          /\ self'.last_overflow_iter = self.cur_iter]_vars

\* C4 witness: the call that raised has floored the scale at 1 and recorded
\* the step it ran at.
C4_Witness ==
    /\ IsDynamic
    /\ last.op = "update_loss_scale"
    /\ last.overflow
    /\ last.raised = "RuntimeError"
    /\ self.loss_scale = One
    /\ self.last_overflow_iter = self.cur_iter

\* C5: bad_step is the length of the trailing run of overflow = True calls.
C5_BadStepIsTrailingRun == IsDynamic => self.bad_step = hist.trueRun

\* C5 witness: a non-overflow call after a RuntimeError has reset bad_step.
C5_Witness ==
    /\ IsDynamic
    /\ hist.raises > 0
    /\ last.op = "update_loss_scale"
    /\ ~last.overflow
    /\ self.bad_step = 0

\* C6: cur_iter = 1 + the number of update_loss_scale calls made so far,
\* the calls that raised RuntimeError included.
C6_StepCountsCalls == IsDynamic => self.cur_iter = 1 + hist.calls

\* The constructor arguments C7 calls invalid.
ClaimedInvalid(a) ==
    IF a.cls = FixedCls
    THEN RLess(a.loss_scale, One)
    ELSE \/ RLess(a.init_loss_scale, One)
         \/ RLeq(a.scale_factor, Zero)
         \/ a.scale_window < 1

C8_FixedUpdateIsNoOp ==
    IsFixed =>
        /\ self._loss_scale = args.loss_scale
        /\ self._drop_overflow_update = args.drop_overflow_update
        /\ last.raised = "none"
        /\ last.op = "get_loss_scale" => last.ret = Float(args.loss_scale)
        /\ last.op = "get_drop_overflow_update" =>
              last.ret = Bool(args.drop_overflow_update)

\* C8 witness: get_loss_scale() read after calls of both kinds.
C8_Witness ==
    /\ IsFixed
    /\ last.op = "get_loss_scale"
    /\ hist.anyOverflow
    /\ hist.falseRun > 0
    /\ RLess(One, args.loss_scale)

\* C9: on the fixed manager get_update_cell() returns a cell carrying the
\* fixed scale when drop_overflow_update is true and None when it is false,
\* whatever calls preceded it, and the call leaves the object as it was.
C9_UpdateCellFollowsFlag ==
    /\ [](IsFixed /\ last.op = "get_update_cell" =>
            /\ (last.ret # None) <=> args.drop_overflow_update
            /\ args.drop_overflow_update =>
                  last.ret = FixedLossScaleUpdateCell(args.loss_scale))
    /\ [][(IsFixed /\ last'.op = "get_update_cell") => self' = self]_vars

\* C9 witness: None returned with the flag off, after an overflow call.
C9_Witness ==
    /\ IsFixed
    /\ last.op = "get_update_cell"
    /\ last.ret = None
    /\ ~args.drop_overflow_update
    /\ hist.anyOverflow

\* C10: a call increases loss_scale only if it is a non-overflow call that
\* completes a run of at least scale_window consecutive non-overflow calls.
C10_GrowthNeedsFullWindow ==
    [][(IsDynamic /\ hist'.calls = hist.calls + 1
            /\ RLess(self.loss_scale, self'.loss_scale)) =>
          /\ ~last'.overflow
          /\ hist'.falseRun >= self.scale_window]_vars

=============================================================================
